---- MODULE Spec2Model ----
(***************************************************************************)
(* Status views of the tunnel managers (udp2raw, UDP tunnel, Phantun):     *)
(* reconciliation of the configured tunnels with the supervisor's live     *)
(* instances, and the poll tasks the views register with LuCI's poller.    *)
(*                                                                         *)
(* view selects the status view that is running:                           *)
(*   "udp2raw"    luci-app-udp2raw status.js (and the UDP tunnel status    *)
(*                pages 1.3.x that share its code): the poll task renders  *)
(*                the whole page again;                                    *)
(*   "udptunnel"  UDP tunnel status page 2.7/2.8: updateStatusView;        *)
(*   "phantun_v1" Phantun status page 1.0.0 (Stop/Start Refresh buttons);  *)
(*   "phantun_v2" Phantun status page 1.1.0 (Pause/Resume toggle).         *)
(*                                                                         *)
(* Specifications: Spec (reconciliation and status polling), SpecLog      *)
(* (Phantun log controls), SpecLive (instances exit while the page is     *)
(* open), SpecLoad (load() with failing queries), SpecWindow and          *)
(* SpecLevel, SpecTail and SpecCodes (getRecentLogs), SpecStrip           *)
(* (stripAnsi / cleanText), SpecNat (the NAT checks on a dump),           *)
(* SpecIfaces (checkTunInterfaces), SpecColor (getLogColor).              *)
(***************************************************************************)
EXTENDS Integers, Sequences, FiniteSets, TLC

VARIABLES
    view,           \* which status view runs
    tunnels,        \* configuration store: tunnel sections, in uci order
    globalEnabled,  \* configuration store: general.enabled = '1'
    svc,            \* supervisor: instance key -> state of the instance
    pc,             \* "init" | "loaded" | "rendered" | "live" | "logs" | "stripped"
                    \* | "nat" | "ifaces" | "colored"
    table,          \* displayed tunnel table: one row per <tr> after the titles
    pollQueue,      \* LuCI poll queue: <<[fn, kind, r]>>
    fetches,        \* cycles in flight, in the order they were started
    logPollFn,      \* self.logPollFn (NoFn = null)
    logSeq,         \* number of lines the system log holds
    lastClearTime,  \* module variable lastClearTime (NoTime = null)
    logWindow,      \* displayed log window: [snap, cutoff]
    logStatus,      \* text of the #log-status element
    failed,         \* external queries that fail during this load
    natDump,        \* what iptables-save prints
    loadData,       \* what load() settles with
    logBlob,        \* lines logread prints, oldest first
    logLevel,       \* general.log_level of the configuration store
    logs,           \* what getRecentLogs resolves with
    str,            \* argument of the control-code stripper
    cleaned,        \* what the stripper returns
    natLines,       \* lines of the iptables-save dump the NAT check reads
    natResult,      \* what the NAT check resolves with
    ipLines,        \* lines 'ip addr show' prints
    tunInterfaces,  \* what checkTunInterfaces resolves with
    logLine,        \* log line given to getLogColor: the keywords it holds
    color           \* what getLogColor returns

(* The parsers' inputs and results. *)
parseVars == <<natLines, natResult, ipLines, tunInterfaces, logLine, color>>

(* The collectors' inputs and results. *)
ioVars == <<failed, natDump, loadData, logBlob, logLevel, logs, str, cleaned,
            parseVars>>

vars == <<view, tunnels, globalEnabled, svc, pc, table, pollQueue, fetches,
          logPollFn, logSeq, lastClearTime, logWindow, logStatus, ioVars>>

(* ------------------------------ bounds -------------------------------- *)
MaxTunnels == 2
MaxTasks == 3
MaxInFlight == 2
MaxLogLines == 2
MaxNatLines == 2
MaxIpLines == 4
MaxWords == 2

(* ------------------------- program constants -------------------------- *)
NoPid == 0
PidNA == -1
NoFn == 0
NoTime == -1

Ids == {"t1", "t2"}
Modes == {"client", "server"}
Views == {"udp2raw", "udptunnel", "phantun_v1", "phantun_v2"}
IsPhantun(v) == v \in {"phantun_v1", "phantun_v2"}

(* Instance keys the supervisor may report, in the order of the object's  *)
(* keys. "x" is an instance no tunnel section is named after.             *)
KeysSeq(v) ==
    IF IsPhantun(v) THEN <<"client_t1", "server_t1", "client_t2">>
    ELSE <<"t1", "t2", "x">>

Range(s) == {s[i] : i \in DOMAIN s}
Keys(v) == Range(KeysSeq(v))

(* State of one instance in the supervisor's answer.                      *)
InstStates == {"absent", "stopped", "nopid", "pid"}
PidOf(v, key) == 100 + (CHOOSE i \in DOMAIN KeysSeq(v) : KeysSeq(v)[i] = key)
RawRunning(st) == st \in {"nopid", "pid"}
RawPid(v, key, st) == IF st = "pid" THEN PidOf(v, key) ELSE NoPid

(* ------------------------ Live State Collector ------------------------ *)
(* getServiceStatus of the udp2raw view: the list of running instances,   *)
(* pid: inst.pid || 'N/A'.                                                 *)
Udp2rawInstances(v, s) ==
    LET ks == KeysSeq(v)
        F[i \in 0..Len(ks)] ==
            IF i = 0 THEN <<>>
            ELSE IF RawRunning(s[ks[i]])
                 THEN Append(F[i-1],
                        [name |-> ks[i],
                         pid |-> IF RawPid(v, ks[i], s[ks[i]]) = NoPid
                                 THEN PidNA ELSE RawPid(v, ks[i], s[ks[i]])])
                 ELSE F[i-1]
    IN F[Len(ks)]

(* getServiceStatus of the UDP tunnel 2.x and Phantun views: the running  *)
(* instances as an object keyed by instance name, pid: inst.pid.           *)
MapInstances(v, s) ==
    [k \in {k \in Keys(v) : RawRunning(s[k])} |-> [pid |-> RawPid(v, k, s[k])]]

(* getTunnelConfigs: one tunnel per section, in the order of the store;   *)
(* alias: s.alias || s['.name'].                                           *)
GetTunnelConfigs(secs) ==
    [i \in DOMAIN secs |->
        [id |-> secs[i].id,
         alias |-> IF secs[i].alias = "" THEN secs[i].id ELSE secs[i].alias,
         mode |-> secs[i].mode,
         disabled |-> secs[i].disabled]]

(* ----------------------------- Reconciler ----------------------------- *)
(* The if / else-if chain of renderStatusTable.                            *)
Udp2rawStatusMutant(genabled, disabled, isRunning) ==
    IF disabled THEN "Disabled"
    ELSE IF ~genabled THEN "ServiceDisabled"
    ELSE IF isRunning THEN "Running"
    ELSE "Stopped"

Udp2rawStatus(genabled, disabled, isRunning) ==
    IF ~genabled THEN "ServiceDisabled"
    ELSE IF disabled THEN "Disabled"
    ELSE IF isRunning THEN "Running"
    ELSE "Stopped"

SetMax(S) == CHOOSE m \in S : \A n \in S : n <= m

(* One row of renderStatusTable (udp2raw): the instances are scanned for  *)
(* inst.name === t.id, the last match giving the pid.                      *)
Udp2rawRow(t, instances, genabled) ==
    LET matches == {i \in DOMAIN instances : instances[i].name = t.id}
        isRunning == matches # {}
        pid == IF isRunning THEN instances[SetMax(matches)].pid ELSE NoPid
    IN [id |-> t.id, status |-> Udp2rawStatus(genabled, t.disabled, isRunning),
        pid |-> pid]

(* One row of the Phantun table: instanceKey = t.mode + '_' + t.id,       *)
(* isActive = instance && instance.pid.                                    *)
PhantunRow(t, instances) ==
    LET instanceKey == t.mode \o "_" \o t.id
        isActive == instanceKey \in DOMAIN instances
                    /\ instances[instanceKey].pid # NoPid
    IN [id |-> t.id,
        status |-> IF t.disabled THEN "Disabled"
                   ELSE IF isActive THEN "Running" ELSE "Stopped",
        pid |-> IF isActive THEN instances[instanceKey].pid ELSE NoPid]

UdpTunnelRowAny(t, instances) ==
    LET hasInstance == DOMAIN instances # {}
    IN [id |-> t.id,
        status |-> IF t.disabled THEN "Disabled"
                   ELSE IF hasInstance THEN "Running" ELSE "Stopped",
        pid |-> NoPid]

(* One row of updateStatusView (UDP tunnel 2.x):                           *)
(* instance = status.instances[t.id] || status.instances[t.alias].         *)
UdpTunnelRow(t, instances) ==
    LET hasInstance == t.id \in DOMAIN instances \/ t.alias \in DOMAIN instances
        instance == IF t.id \in DOMAIN instances THEN instances[t.id]
                    ELSE instances[t.alias]
    IN [id |-> t.id,
        status |-> IF t.disabled THEN "Disabled"
                   ELSE IF hasInstance THEN "Running" ELSE "Stopped",
        pid |-> IF hasInstance THEN instance.pid ELSE NoPid]

(* The tally of the page header: status.instances.length (udp2raw),       *)
(* Object.keys(instances).length (UDP tunnel 2.x, Phantun 1.0.0).         *)
ActiveCount(v, s) ==
    IF v = "udp2raw" THEN Len(Udp2rawInstances(v, s))
    ELSE Cardinality(DOMAIN MapInstances(v, s))

RenderTableMutant(v, secs, genabled, s) ==
    LET ts == GetTunnelConfigs(secs)
        en == SelectSeq(ts, LAMBDA t : ~t.disabled)
    IN [i \in DOMAIN en |-> Udp2rawRow(en[i], Udp2rawInstances(v, s), genabled)]

(* The rows of the tunnel table the view builds from one load: one per    *)
(* tunnel, appended in the order of the tunnel list.                       *)
RenderTable(v, secs, genabled, s) ==
    LET ts == GetTunnelConfigs(secs)
    IN [i \in DOMAIN ts |->
          IF v = "udp2raw" THEN Udp2rawRow(ts[i], Udp2rawInstances(v, s), genabled)
          ELSE IF v = "udptunnel" THEN UdpTunnelRow(ts[i], MapInstances(v, s))
          ELSE PhantunRow(ts[i], MapInstances(v, s))]

(* ------------------------------ LuCI poll ------------------------------ *)
(* poll.add(fn, interval): a function already queued is not added again;  *)
(* a new entry starts ready (r = true).                                    *)
PollAdd(q, fn, kind) ==
    IF \E i \in DOMAIN q : q[i].fn = fn THEN q
    ELSE Append(q, [fn |-> fn, kind |-> kind, r |-> TRUE])

(* poll.remove(fn): every entry of that function leaves the queue.        *)
PollRemove(q, fn) == SelectSeq(q, LAMBDA e : e.fn # fn)

(* The poll loop marks an entry not ready before it calls the function,   *)
(* and ready again when the promise the function returned settles.        *)
SetReady(q, fn, ready) ==
    [i \in DOMAIN q |-> IF q[i].fn = fn THEN [q[i] EXCEPT !.r = ready] ELSE q[i]]

RemoveAt(s, k) == [i \in 1..(Len(s) - 1) |-> IF i < k THEN s[i] ELSE s[i + 1]]

(* L.bind(...) and function expressions make a new function object each   *)
(* time: the smallest identity no queued entry or running cycle holds.    *)
UsedFns(q, fs) == {q[i].fn : i \in DOMAIN q} \cup {fs[i].fn : i \in DOMAIN fs}
FreshFn(q, fs) ==
    CHOOSE n \in 1..(Cardinality(UsedFns(q, fs)) + 1) :
        /\ n \notin UsedFns(q, fs)
        /\ \A m \in 1..(n - 1) : m \in UsedFns(q, fs)

NLogTasks(q) == Cardinality({i \in DOMAIN q : q[i].kind = "log"})
NStatusTasks(q) == Cardinality({i \in DOMAIN q : q[i].kind = "status"})
NLogFetches(fs) == Cardinality({i \in DOMAIN fs : fs[i].kind = "log"})
NTimerLogFetches(fs) ==
    Cardinality({i \in DOMAIN fs : fs[i].kind = "log" /\ fs[i].origin = "timer"})

(* --------------------------- inputs of a run --------------------------- *)
SectionsOf(v) ==
    [id : Ids,
     alias : IF v = "udptunnel" THEN {"", "t1", "x"} ELSE {""},
     mode : IF IsPhantun(v) THEN Modes ELSE {"client"},
     disabled : BOOLEAN]

(* uci section names are unique.                                           *)
TunnelSeqs(v) ==
    {s \in UNION {[1..n -> SectionsOf(v)] : n \in 0..MaxTunnels} :
        \A i, j \in DOMAIN s : i # j => s[i].id # s[j].id}

(* checkTunInterfaces returns null when it found no interface.            *)
NoFacts == [null |-> TRUE, facts |-> <<>>]

(* Nothing has been parsed yet. *)
NoParse ==
    /\ natLines = <<>>
    /\ natResult = [state |-> "pending"]
    /\ ipLines = <<>>
    /\ tunInterfaces = NoFacts
    /\ logLine = {}
    /\ color = "none"

(* Nothing has been collected or stripped yet. *)
NoIO ==
    /\ NoParse
    /\ failed = {}
    /\ natDump = "none"
    /\ loadData = [state |-> "pending"]
    /\ logBlob = <<>>
    /\ logLevel = ""
    /\ logs = <<>>
    /\ str = <<>>
    /\ cleaned = <<>>

Idle ==
    /\ NoIO
    /\ pc = "init"
    /\ table = <<>>
    /\ pollQueue = <<>>
    /\ fetches = <<>>
    /\ logPollFn = NoFn
    /\ logSeq = 0
    /\ lastClearTime = NoTime
    /\ logWindow = [snap |-> 0, cutoff |-> NoTime]
    /\ logStatus = ""

Init ==
    /\ view \in Views
    /\ tunnels \in TunnelSeqs(view)
    /\ globalEnabled \in BOOLEAN
    /\ svc \in [Keys(view) -> InstStates]
    /\ Idle

(* ------------------------------- render -------------------------------- *)
(* render(data), called once load() has resolved. The udp2raw and UDP     *)
(* tunnel views register their status task here; the Phantun views ask    *)
(* for an animation frame and register theirs in its callback.            *)
Render ==
    /\ pc = "init"
    /\ table' = RenderTable(view, tunnels, globalEnabled, svc)
    /\ logWindow' = [snap |-> logSeq, cutoff |-> lastClearTime]
    /\ pollQueue' = IF IsPhantun(view) THEN pollQueue
                    ELSE PollAdd(pollQueue, FreshFn(pollQueue, fetches), "status")
    /\ pc' = IF IsPhantun(view) THEN "rendered" ELSE "live"
    /\ UNCHANGED ioVars
    /\ UNCHANGED <<view, tunnels, globalEnabled, svc, fetches, logPollFn,
                   logSeq, lastClearTime, logStatus>>

(* The requestAnimationFrame callback of the Phantun views. It runs       *)
(* before the first paint, so before any button can be clicked.           *)
(* 1.0.0: sets the timestamp, binds and adds the log task, then adds the  *)
(* status task. 1.1.0: adds the log task if logPollFn is not set.         *)
AutoStart ==
    /\ pc = "rendered"
    /\ LET f1 == FreshFn(pollQueue, fetches)
           q1 == PollAdd(pollQueue, f1, "log")
       IN IF view = "phantun_v1"
          THEN /\ logStatus' = "updated"
               /\ logPollFn' = f1
               /\ pollQueue' = PollAdd(q1, FreshFn(q1, fetches), "status")
          ELSE /\ logStatus' = logStatus
               /\ logPollFn' = IF logPollFn = NoFn THEN f1 ELSE logPollFn
               /\ pollQueue' = IF logPollFn = NoFn THEN q1 ELSE pollQueue
    /\ pc' = "live"
    /\ UNCHANGED ioVars
    /\ UNCHANGED <<view, tunnels, globalEnabled, svc, table, fetches,
                   logSeq, lastClearTime, logWindow>>

(* ------------------------------ poll loop ------------------------------ *)
(* The status task of Phantun 1.0.0 calls self.fetchStatusData, which the *)
(* view does not define: the call throws before any promise exists.       *)
StatusFnThrows == view = "phantun_v1"

(* The interval of queue entry i has elapsed and the entry is ready: the  *)
(* loop marks it not ready and calls its function, which starts a cycle.  *)
(* A function that throws leaves no promise to settle, so its entry is    *)
(* never marked ready again.                                              *)
TimerFire(i) ==
    /\ pc = "live"
    /\ i \in DOMAIN pollQueue
    /\ pollQueue[i].r
    /\ pollQueue' = SetReady(pollQueue, pollQueue[i].fn, FALSE)
    /\ IF pollQueue[i].kind = "status" /\ StatusFnThrows
       THEN fetches' = fetches
       ELSE /\ Len(fetches) < MaxInFlight
            /\ fetches' = Append(fetches,
                    [kind |-> pollQueue[i].kind, origin |-> "timer",
                     fn |-> pollQueue[i].fn, snap |-> logSeq])
    /\ UNCHANGED ioVars
    /\ UNCHANGED <<view, tunnels, globalEnabled, svc, pc, table, logPollFn,
                   logSeq, lastClearTime, logWindow, logStatus>>

(* The cutoff getRecentLogs filters by: the callback that receives the   *)
(* output of logread reads lastClearTime then.                             *)
CutoffReadNone == NoTime

CutoffRead == lastClearTime

(* The queries of cycle k have resolved and its then-callback runs.       *)
(*   log cycle (pollLogs): getRecentLogs filters by the lastClearTime of  *)
(*     this moment; the container and the status line are rewritten;      *)
(*   status cycle, udp2raw: this.render(refreshData) builds a new page,   *)
(*     which registers another task, and replaces the old one;            *)
(*   status cycle, UDP tunnel: updateStatusView rewrites the table rows.  *)
FetchResolve(k) ==
    /\ k \in DOMAIN fetches
    /\ fetches' = RemoveAt(fetches, k)
    /\ IF fetches[k].kind = "log"
       THEN /\ logWindow' = [snap |-> fetches[k].snap, cutoff |-> CutoffRead]
            /\ logStatus' = IF view = "phantun_v1" THEN "updated" ELSE "live"
            /\ pollQueue' = SetReady(pollQueue, fetches[k].fn, TRUE)
            /\ table' = table
       ELSE /\ table' = RenderTable(view, tunnels, globalEnabled, svc)
            /\ logStatus' = logStatus
            /\ IF view = "udp2raw"
               THEN /\ Len(pollQueue) < MaxTasks
                    /\ logWindow' = [snap |-> fetches[k].snap, cutoff |-> NoTime]
                    /\ pollQueue' = SetReady(
                           PollAdd(pollQueue,
                                   FreshFn(pollQueue, fetches), "status"),
                           fetches[k].fn, TRUE)
               ELSE /\ logWindow' = logWindow
                    /\ pollQueue' = SetReady(pollQueue, fetches[k].fn, TRUE)
    /\ UNCHANGED ioVars
    /\ UNCHANGED <<view, tunnels, globalEnabled, svc, pc, logPollFn,
                   logSeq, lastClearTime>>

(* A query of cycle k has failed (uci.load or fs.exec rejected): the      *)
(* then-callback does not run; the poll loop marks the entry ready.       *)
FetchReject(k) ==
    /\ k \in DOMAIN fetches
    /\ fetches' = RemoveAt(fetches, k)
    /\ pollQueue' = SetReady(pollQueue, fetches[k].fn, TRUE)
    /\ UNCHANGED ioVars
    /\ UNCHANGED <<view, tunnels, globalEnabled, svc, pc, table, logPollFn,
                   logSeq, lastClearTime, logWindow, logStatus>>

Next ==
    \/ Render
    \/ AutoStart
    \/ \E i \in 1..MaxTasks : TimerFire(i)
    \/ \E k \in 1..MaxInFlight : FetchResolve(k)
    \/ \E k \in 1..MaxInFlight : FetchReject(k)

Spec == Init /\ [][Next]_vars

(* ----------------------- Phantun log controls -------------------------- *)
(* What the scheduler state is after a click, as [queue, fn, status].     *)
SchedulerState == [queue |-> pollQueue, fn |-> logPollFn, status |-> logStatus]

StopKeepsTask ==
    IF logPollFn # NoFn
    THEN [queue |-> pollQueue, fn |-> NoFn, status |-> "paused"]
    ELSE SchedulerState

(* Stop Refresh (1.0.0): if (self.logPollFn) { poll.remove; null; Paused } *)
StopRefreshResult ==
    IF logPollFn # NoFn
    THEN [queue |-> PollRemove(pollQueue, logPollFn), fn |-> NoFn,
          status |-> "paused"]
    ELSE SchedulerState

StartAlwaysAdds ==
    LET f == FreshFn(pollQueue, fetches)
    IN [queue |-> PollAdd(pollQueue, f, "log"), fn |-> f, status |-> "auto"]

(* Start Refresh (1.0.0): if (!self.logPollFn) { bind; poll.add; status } *)
StartRefreshResult ==
    IF logPollFn = NoFn
    THEN LET f == FreshFn(pollQueue, fetches)
         IN [queue |-> PollAdd(pollQueue, f, "log"), fn |-> f, status |-> "auto"]
    ELSE SchedulerState

StopRefresh ==
    /\ pc = "live"
    /\ view = "phantun_v1"
    /\ pollQueue' = StopRefreshResult.queue
    /\ logPollFn' = StopRefreshResult.fn
    /\ logStatus' = StopRefreshResult.status
    /\ UNCHANGED ioVars
    /\ UNCHANGED <<view, tunnels, globalEnabled, svc, pc, table, fetches,
                   logSeq, lastClearTime, logWindow>>

StartRefresh ==
    /\ pc = "live"
    /\ view = "phantun_v1"
    /\ pollQueue' = StartRefreshResult.queue
    /\ logPollFn' = StartRefreshResult.fn
    /\ logStatus' = StartRefreshResult.status
    /\ UNCHANGED ioVars
    /\ UNCHANGED <<view, tunnels, globalEnabled, svc, pc, table, fetches,
                   logSeq, lastClearTime, logWindow>>

(* Pause / Resume Auto-Refresh (1.1.0): one button. Pausing removes the   *)
(* task; resuming binds and adds a task and calls pollLogs() at once.     *)
ToggleRefresh ==
    /\ pc = "live"
    /\ view = "phantun_v2"
    /\ IF logPollFn # NoFn
       THEN /\ pollQueue' = PollRemove(pollQueue, logPollFn)
            /\ logPollFn' = NoFn
            /\ logStatus' = "paused"
            /\ fetches' = fetches
       ELSE /\ Len(fetches) < MaxInFlight
            /\ logPollFn' = FreshFn(pollQueue, fetches)
            /\ pollQueue' = PollAdd(pollQueue, FreshFn(pollQueue, fetches), "log")
            /\ logStatus' = logStatus
            /\ fetches' = Append(fetches,
                    [kind |-> "log", origin |-> "resume", fn |-> NoFn,
                     snap |-> logSeq])
    /\ UNCHANGED ioVars
    /\ UNCHANGED <<view, tunnels, globalEnabled, svc, pc, table,
                   logSeq, lastClearTime, logWindow>>

(* Clear Logs / Clear View: lastClearTime is set and pollLogs() is called *)
(* directly, whatever the poll loop is doing. Time is counted in log      *)
(* lines: the cutoff is the number of lines the log holds at the click.   *)
ClearLogs ==
    /\ pc = "live"
    /\ IsPhantun(view)
    /\ Len(fetches) < MaxInFlight
    /\ lastClearTime' = logSeq
    /\ fetches' = Append(fetches,
            [kind |-> "log", origin |-> "clear", fn |-> NoFn, snap |-> logSeq])
    /\ UNCHANGED ioVars
    /\ UNCHANGED <<view, tunnels, globalEnabled, svc, pc, table, pollQueue,
                   logPollFn, logSeq, logWindow, logStatus>>

(* The system log receives a line.                                         *)
NewLogLine ==
    /\ logSeq < MaxLogLines
    /\ logSeq' = logSeq + 1
    /\ UNCHANGED ioVars
    /\ UNCHANGED <<view, tunnels, globalEnabled, svc, pc, table, pollQueue,
                   fetches, logPollFn, lastClearTime, logWindow, logStatus>>

(* The Phantun status page with its log controls, over one configuration. *)
InitLog ==
    /\ view \in {"phantun_v1", "phantun_v2"}
    /\ tunnels = <<[id |-> "t1", alias |-> "", mode |-> "client",
                    disabled |-> FALSE]>>
    /\ globalEnabled = TRUE
    /\ svc \in [Keys(view) -> {"pid"}]
    /\ Idle

NextLog ==
    \/ Render
    \/ AutoStart
    \/ \E i \in 1..MaxTasks : TimerFire(i)
    \/ \E k \in 1..MaxInFlight : FetchResolve(k)
    \/ \E k \in 1..MaxInFlight : FetchReject(k)
    \/ StopRefresh
    \/ StartRefresh
    \/ ToggleRefresh
    \/ ClearLogs
    \/ NewLogLine

SpecLog == InitLog /\ [][NextLog]_vars

(* ------------------------- Log Window Manager -------------------------- *)
(* A log line is what the filters read of it:                              *)
(*   ts     the time parseLogTime finds in it (NoTime: none),              *)
(*   level  the word after "daemon." ("none": no such word),               *)
(*   eq     whether the text contains "===",                               *)
(*   synth  the cutoff a marker made by getRecentLogs carries (NoTime for  *)
(*          a line of the log),                                            *)
(*   blank  whether the line is empty,                                     *)
(*   code   where the line carries a control code: "none", "in_level"     *)
(*          (inside the word after "daemon."), "in_time" (inside the      *)
(*          time), "other" (elsewhere in the text).                       *)
(* ts and level are what the cleaned text holds; a code inside a word     *)
(* keeps the pattern from matching the raw text.                          *)
MaxBlob == 2
MaxTime == 2
LogTail == 150
LogTailUdp2raw == 100

Times == 0..MaxTime
LineLevels == {"none", "notice", "trace", "debug", "info", "warn", "warning",
               "err", "error"}
ConfigLevels == {"", "off", "trace", "debug", "info", "warn", "warning",
                 "error", "err"}

(* What the patterns find in the text as it stands.                       *)
SeenLevel(line) == IF line.code = "in_level" THEN "none" ELSE line.level
SeenTime(line) == IF line.code = "in_time" THEN NoTime ELSE line.ts

(* cleanText applied to a line.                                            *)
CleanLine(line) == [line EXCEPT !.code = "none"]

(* line.match(/daemon\.(trace|debug|info|warn|warning|err|error)/i)[1]:    *)
(* the first alternative that matches at "daemon.", lower-cased.           *)
LevelMatch(level) ==
    IF level \in {"trace", "debug", "info", "warn", "err"} THEN level
    ELSE IF level = "warning" THEN "warn"
    ELSE IF level = "error" THEN "err"
    ELSE "none"

(* levelPriority[name] || 2: a name the table lacks, and the entry 0,     *)
(* both give 2.                                                            *)
LevelPriorityOr2(name) ==
    LET levelPriority == [trace |-> 0, debug |-> 1, info |-> 2, warn |-> 3,
                          warning |-> 3, error |-> 4, err |-> 4]
    IN IF name \in DOMAIN levelPriority /\ levelPriority[name] # 0
       THEN levelPriority[name] ELSE 2

(* logLevel = generalSections[0].log_level || 'info'                       *)
ConfiguredLevel(level) == IF level = "" THEN "info" ELSE level

(* The callback of the level filter (Phantun 1.0.0).                       *)
LevelKeep(line, level) ==
    IF LevelMatch(SeenLevel(line)) # "none"
    THEN LevelPriorityOr2(LevelMatch(SeenLevel(line)))
            >= LevelPriorityOr2(ConfiguredLevel(level))
    ELSE TRUE

(* The callback of the cutoff filter. 1.0.0: a line with a time is kept   *)
(* if the time is after the cutoff, a line without one if it contains     *)
(* "===". 1.1.0: logTime && logTime > lastClearTime.                       *)
CutoffKeep(v, line, cutoff) ==
    IF v = "phantun_v1"
    THEN IF SeenTime(line) # NoTime THEN SeenTime(line) > cutoff ELSE line.eq
    ELSE SeenTime(line) # NoTime /\ SeenTime(line) > cutoff

ClearMarker(cutoff) ==
    [ts |-> NoTime, level |-> "none", eq |-> TRUE, synth |-> cutoff,
     blank |-> FALSE, code |-> "none"]

(* lines.slice(-n): the last n elements; -0 is 0, and slice(0) is all.    *)
Slice(lines, n) ==
    IF n = 0 \/ Len(lines) <= n THEN lines
    ELSE SubSeq(lines, Len(lines) - n + 1, Len(lines))

Reverse(lines) == [i \in DOMAIN lines |-> lines[Len(lines) + 1 - i]]

(* What getRecentLogs resolves with when logread printed blob: an empty   *)
(* output gives [] at once; Phantun 1.0.0 filters by level; the Phantun   *)
(* views filter by the cutoff and put the marker in front; the last 150   *)
(* lines are kept, cleaned one by one and reversed (the UDP tunnel 2.x    *)
(* page: the last 150 lines, cleaned and reversed). The udp2raw view      *)
(* takes the last 100 lines                                               *)
(* of the output and drops the empty ones among them, in the order of the *)
(* log.                                                                    *)
GetRecentLogs(v, blob, level, cutoff) ==
    IF blob = <<>> THEN <<>>
    ELSE IF v = "udp2raw"
    THEN SelectSeq(Slice(blob, LogTailUdp2raw), LAMBDA l : ~l.blank)
    ELSE IF v = "udptunnel"
    THEN Reverse([i \in DOMAIN Slice(blob, LogTail) |->
                     CleanLine(Slice(blob, LogTail)[i])])
    ELSE LET byLevel == IF v = "phantun_v1"
                        THEN SelectSeq(blob, LAMBDA l : LevelKeep(l, level))
                        ELSE blob
             byTime == SelectSeq(byLevel, LAMBDA l : CutoffKeep(v, l, cutoff))
             lines == IF cutoff # NoTime
                      THEN <<ClearMarker(cutoff)>> \o byTime
                      ELSE byLevel
         IN Reverse([i \in DOMAIN Slice(lines, LogTail) |->
                        CleanLine(Slice(lines, LogTail)[i])])

(* Log lines the runs draw from: with or without a time, a level word,    *)
(* the text "===".                                                         *)
BlankLine ==
    [ts |-> NoTime, level |-> "none", eq |-> FALSE, synth |-> NoTime,
     blank |-> TRUE, code |-> "none"]

LogLines(levels) ==
    [ts : Times \cup {NoTime}, level : levels, eq : BOOLEAN, synth : {NoTime},
     blank : {FALSE}, code : {"none"}] \cup {BlankLine}

(* n lines of one burst, later than every cutoff of the runs.             *)
Burst(n) ==
    [i \in 1..n |-> [ts |-> MaxTime + 1, level |-> "err", eq |-> FALSE,
                     synth |-> NoTime, blank |-> FALSE, code |-> "none"]]

Blobs(levels, bursts) ==
    {h \o Burst(n) :
        h \in UNION {[1..k -> LogLines(levels)] : k \in 0..MaxBlob},
        n \in bursts}

SchedulerIdle ==
    /\ pc = "init"
    /\ table = <<>>
    /\ pollQueue = <<>>
    /\ fetches = <<>>
    /\ logPollFn = NoFn
    /\ logSeq = 0
    /\ logWindow = [snap |-> 0, cutoff |-> NoTime]
    /\ logStatus = ""

NoStore ==
    /\ tunnels = <<>>
    /\ globalEnabled = TRUE
    /\ svc = [k \in Keys(view) |-> "absent"]

(* getRecentLogs runs once on what logread printed.                        *)
UpdateLogs ==
    /\ pc = "init"
    /\ logs' = GetRecentLogs(view, logBlob, logLevel, lastClearTime)
    /\ pc' = "logs"
    /\ UNCHANGED <<view, tunnels, globalEnabled, svc, table, pollQueue,
                   fetches, logPollFn, logSeq, lastClearTime, logWindow,
                   logStatus, failed, natDump, loadData, logBlob, logLevel,
                   str, cleaned, parseVars>>

(* The Phantun log window over every short log, alone or followed by a    *)
(* burst as long as the window, with and without a cutoff.                 *)
InitWindow ==
    /\ view \in {"phantun_v1", "phantun_v2"}
    /\ NoStore
    /\ SchedulerIdle
    /\ lastClearTime \in Times \cup {NoTime}
    /\ logBlob \in Blobs({"none", "debug", "err"}, {0, LogTail})
    /\ logLevel \in {"", "err"}
    /\ failed = {} /\ natDump = "none" /\ loadData = [state |-> "pending"]
    /\ logs = <<>> /\ str = <<>> /\ cleaned = <<>> /\ NoParse

NextWindow == UpdateLogs

SpecWindow == InitWindow /\ [][NextWindow]_vars

(* The level filter of Phantun 1.0.0 over every configured level and      *)
(* every level word of a line.                                             *)
InitLevel ==
    /\ view = "phantun_v1"
    /\ NoStore
    /\ SchedulerIdle
    /\ lastClearTime = NoTime
    /\ logBlob \in {b \in Blobs(LineLevels, {0}) :
                       \A i \in DOMAIN b : b[i].ts = 0 /\ ~b[i].eq}
    /\ logLevel \in ConfigLevels
    /\ failed = {} /\ natDump = "none" /\ loadData = [state |-> "pending"]
    /\ logs = <<>> /\ str = <<>> /\ cleaned = <<>> /\ NoParse

SpecLevel == InitLevel /\ [][NextWindow]_vars

(* The log window of every view, over logs shorter and longer than the    *)
(* window.                                                                 *)
InitTail ==
    /\ view \in Views
    /\ NoStore
    /\ SchedulerIdle
    /\ lastClearTime \in IF IsPhantun(view) THEN {NoTime, 0} ELSE {NoTime}
    /\ logBlob \in Blobs({"none", "err"}, {0, LogTailUdp2raw, LogTail})
    /\ logLevel = ""
    /\ failed = {} /\ natDump = "none" /\ loadData = [state |-> "pending"]
    /\ logs = <<>> /\ str = <<>> /\ cleaned = <<>> /\ NoParse

SpecTail == InitTail /\ [][NextWindow]_vars

(* Lines that carry a control code somewhere.                              *)
CodedLines ==
    [ts : {NoTime, 0, MaxTime}, level : {"none", "debug", "err"},
     eq : {FALSE}, synth : {NoTime}, blank : {FALSE},
     code : {"none", "in_level", "in_time", "other"}]

(* The Phantun log window over logs whose lines carry control codes.      *)
InitCodes ==
    /\ view \in {"phantun_v1", "phantun_v2"}
    /\ NoStore
    /\ SchedulerIdle
    /\ lastClearTime \in {NoTime, 0}
    /\ logBlob \in UNION {[1..k -> CodedLines] : k \in 0..MaxBlob}
    /\ logLevel \in {"", "err"}
    /\ failed = {} /\ natDump = "none" /\ loadData = [state |-> "pending"]
    /\ logs = <<>> /\ str = <<>> /\ cleaned = <<>> /\ NoParse

SpecCodes == InitCodes /\ [][NextWindow]_vars

(* ------------------------------- load() -------------------------------- *)
(* The external queries of a load. A query in failed rejects its promise. *)
Queries == {"service", "config", "logread", "md5", "nat", "iface"}

(* What iptables-save printed, by what the checks look for in it:         *)
(*   "none" nothing, "other" rules of other services, "subnet" a line     *)
(*   with a tunnel subnet and no rule kind, "masq" / "dnat" a line with a *)
(*   tunnel subnet and that rule kind, "name" a line with the tool's      *)
(*   name, "chain" a chain named after the tool, "rst" a DROP rule on RST.*)
NatDumps == {"none", "other", "subnet", "masq", "dnat", "name", "chain", "rst"}

(* The text the check derives from a dump that did arrive.                 *)
NatText(v, dump) ==
    IF v = "phantun_v1"
    THEN IF dump \in {"masq", "dnat"} THEN "Active" ELSE "NoRules"
    ELSE IF v = "phantun_v2"
    THEN IF dump \in {"subnet", "masq", "dnat", "name"} THEN "Active"
         ELSE "NoRules"
    ELSE IF v = "udptunnel"
    THEN IF dump \in {"chain", "name", "rst"} THEN "Active" ELSE "NoRules"
    ELSE IF dump = "rst" THEN "Active" ELSE "NoRules"

(* checkIptablesRules / checkIptables. Phantun and udp2raw wrap the query *)
(* in L.resolveDefault(..., {}), so a rejected query reads as an empty    *)
(* dump; the UDP tunnel page calls fs.exec bare and catches.              *)
CheckIptablesRules(v, dump, fl) ==
    IF "nat" \in fl
    THEN IF v = "udptunnel" THEN "CheckFailed" ELSE NatText(v, "none")
    ELSE NatText(v, dump)

(* getServiceStatus: L.resolveDefault(callServiceList(...), {}).           *)
ServiceResult(v, s, fl) ==
    LET seen == IF "service" \in fl THEN [k \in Keys(v) |-> "absent"] ELSE s
    IN IF v = "udp2raw" THEN Udp2rawInstances(v, seen) ELSE MapInstances(v, seen)

(* getMD5 / checkBinary: a failure is caught.                              *)
BinaryResult(fl) == IF "md5" \in fl THEN "unknown" ELSE "present"

(* checkTunInterfaces (Phantun only): a failure is caught and gives null. *)
TunResult(v, fl) ==
    IF ~IsPhantun(v) THEN "n/a"
    ELSE IF "iface" \in fl THEN "null" ELSE "tun0"

(* getRecentLogs settles by rejection when its promise chain has no       *)
(* handler for the failure: Phantun (uci.load, then fs.exec).             *)
LogsReject(v, fl) == IsPhantun(v) /\ ("config" \in fl \/ "logread" \in fl)

LogsResult(v, blob, level, cutoff, fl) ==
    IF "logread" \in fl THEN <<>> ELSE GetRecentLogs(v, blob, level, cutoff)

(* getTunnelConfigs: uci.load(...).then(...), no handler for a failure.   *)
ConfigReject(fl) == "config" \in fl

(* load(): Promise.all of the collectors. It rejects as soon as one of    *)
(* them rejects, and otherwise resolves with their results.               *)
LoadResult(v, secs, s, dump, blob, level, cutoff, fl) ==
    IF ConfigReject(fl) \/ LogsReject(v, fl)
    THEN [state |-> "rejected"]
    ELSE [state |-> "resolved",
          service |-> ServiceResult(v, s, fl),
          config |-> GetTunnelConfigs(secs),
          logread |-> LogsResult(v, blob, level, cutoff, fl),
          md5 |-> BinaryResult(fl),
          nat |-> CheckIptablesRules(v, dump, fl),
          iface |-> TunResult(v, fl)]

(* The view is opened: load() runs its queries and settles.               *)
Load ==
    /\ pc = "init"
    /\ loadData' = LoadResult(view, tunnels, svc, natDump, logBlob, logLevel,
                              lastClearTime, failed)
    /\ pc' = "loaded"
    /\ UNCHANGED <<view, tunnels, globalEnabled, svc, table, pollQueue,
                   fetches, logPollFn, logSeq, lastClearTime, logWindow,
                   logStatus, failed, natDump, logBlob, logLevel, logs,
                   str, cleaned, parseVars>>

(* One tunnel, every set of live instances, every dump, every set of      *)
(* failing queries.                                                        *)
InitLoad ==
    /\ view \in Views
    /\ tunnels = <<[id |-> "t1", alias |-> "", mode |-> "client",
                    disabled |-> FALSE]>>
    /\ globalEnabled = TRUE
    /\ svc \in [Keys(view) -> {"absent", "pid"}]
    /\ SchedulerIdle
    /\ lastClearTime = NoTime
    /\ failed \in SUBSET Queries
    /\ natDump \in NatDumps
    /\ logBlob \in {<<>>, Burst(1)}
    /\ logLevel = ""
    /\ loadData = [state |-> "pending"]
    /\ logs = <<>> /\ str = <<>> /\ cleaned = <<>> /\ NoParse

NextLoad == Load

SpecLoad == InitLoad /\ [][NextLoad]_vars

(* ------------------------ control-code stripping ----------------------- *)
(* A string is a sequence of characters; one character stands for each    *)
(* class the patterns tell apart: ESC (\x1B), BEL (\x07), "[", "]", a     *)
(* digit, ";", the letter m, another letter, a blank.                     *)
MaxStrLen == 4
Chars == {"ESC", "BEL", "[", "]", "0", ";", "m", "a", " "}
Letters == {"m", "a"}
ParamChars == {"0", ";"}
Strings == UNION {[1..n -> Chars] : n \in 0..MaxStrLen}

(* How many characters from position i on belong to set: a greedy star.   *)
Run(s, i, set) ==
    CHOOSE n \in 0..(Len(s) + 1 - i) :
        /\ \A j \in i..(i + n - 1) : s[j] \in set
        /\ (i + n > Len(s) \/ s[i + n] \notin set)

(* Length of the match of a pattern at position i, 0 if there is none.    *)
(*   "csi"     ESC, "[", any number of digits and ";", a letter;          *)
(*   "csi_nb"  ESC, any number of "[", digits and ";", a letter           *)
(*             (part_005 writes the pattern without the backslash, so the *)
(*             bracket opens the character class);                        *)
(*   "osc"     ESC, "]", any number of characters but BEL, BEL;           *)
(*   "sgr"     "[", any number of digits and ";", "m";                    *)
(*   "esc"     ESC.                                                       *)
MatchLen(pattern, s, i) ==
    LET at(j) == IF j <= Len(s) THEN s[j] ELSE "end"
    IN IF pattern = "csi"
       THEN IF at(i) = "ESC" /\ at(i + 1) = "["
               /\ at(i + 2 + Run(s, i + 2, ParamChars)) \in Letters
            THEN 3 + Run(s, i + 2, ParamChars) ELSE 0
       ELSE IF pattern = "csi_nb"
       THEN IF at(i) = "ESC"
               /\ at(i + 1 + Run(s, i + 1, ParamChars \cup {"["})) \in Letters
            THEN 2 + Run(s, i + 1, ParamChars \cup {"["}) ELSE 0
       ELSE IF pattern = "osc"
       THEN IF at(i) = "ESC" /\ at(i + 1) = "]"
               /\ at(i + 2 + Run(s, i + 2, Chars \ {"BEL"})) = "BEL"
            THEN 3 + Run(s, i + 2, Chars \ {"BEL"}) ELSE 0
       ELSE IF pattern = "sgr"
       THEN IF at(i) = "[" /\ at(i + 1 + Run(s, i + 1, ParamChars)) = "m"
            THEN 2 + Run(s, i + 1, ParamChars) ELSE 0
       ELSE IF at(i) = "ESC" THEN 1 ELSE 0

(* str.replace(/pattern/g, ''): the matches are taken from left to right, *)
(* each search starting where the last match ended.                       *)
RECURSIVE ReplaceFrom(_, _, _)
ReplaceFrom(pattern, s, i) ==
    IF i > Len(s) THEN <<>>
    ELSE IF MatchLen(pattern, s, i) > 0
         THEN ReplaceFrom(pattern, s, i + MatchLen(pattern, s, i))
         ELSE <<s[i]>> \o ReplaceFrom(pattern, s, i + 1)

Replace(pattern, s) == ReplaceFrom(pattern, s, 1)

(* String.prototype.trim                                                   *)
Trim(s) ==
    LET lead == Run(s, 1, {" "})
        keep == {i \in DOMAIN s : s[i] # " "}
    IN IF keep = {} THEN <<>>
       ELSE SubSeq(s, lead + 1, CHOOSE m \in keep : \A i \in keep : i <= m)

(* stripAnsi (UDP tunnel status 1.3.1)                                     *)
StripAnsi(s) ==
    Trim(Replace("esc", Replace("sgr", Replace("osc", Replace("csi", s)))))

CleanTextSgr(v, s) ==
    Trim(Replace("sgr", Replace(IF v = "udptunnel" THEN "csi_nb" ELSE "csi", s)))

(* cleanText (Phantun; UDP tunnel 2.x with its own pattern)               *)
CleanText(v, s) ==
    Trim(Replace(IF v = "udptunnel" THEN "csi_nb" ELSE "csi", s))

Strip(v, s) == IF v = "udp2raw" THEN StripAnsi(s) ELSE CleanText(v, s)

(* The stripper of the view is applied to str.                             *)
StripControlCodes ==
    /\ pc = "init"
    /\ cleaned' = Strip(view, str)
    /\ pc' = "stripped"
    /\ UNCHANGED <<view, tunnels, globalEnabled, svc, table, pollQueue,
                   fetches, logPollFn, logSeq, lastClearTime, logWindow,
                   logStatus, failed, natDump, loadData, logBlob, logLevel,
                   logs, str, parseVars>>

InitStrip ==
    /\ view \in {"udp2raw", "udptunnel", "phantun_v1"}
    /\ NoStore
    /\ SchedulerIdle
    /\ lastClearTime = NoTime
    /\ str \in Strings
    /\ failed = {} /\ natDump = "none" /\ loadData = [state |-> "pending"]
    /\ logBlob = <<>> /\ logLevel = "" /\ logs = <<>> /\ cleaned = <<>>
    /\ NoParse

NextStrip == StripControlCodes

SpecStrip == InitStrip /\ [][NextStrip]_vars

(* ------------------------- NAT checks on a dump ------------------------ *)
(* A line of the dump, as the UDP tunnel page reads it:                    *)
(*   start  the chain a line ':udp2raw<name> ...' declares (0 = the line   *)
(*          does not begin that way),                                      *)
(*   mid    the name that follows a ':udp2raw' later in the line (0 =      *)
(*          none),                                                         *)
(*   word   whether 'udp2raw' occurs in the line otherwise,                *)
(*   drop, rst  whether the line holds 'DROP', 'RST'.                      *)
ChainNames == {1, 2}
ChainLines ==
    [start : ChainNames \cup {0}, mid : {0, 3}, word : BOOLEAN,
     drop : BOOLEAN, rst : BOOLEAN]

(* A line of the dump, as the Phantun pages read it:                       *)
(*   marker "subnet" (192.168.200 / 192.168.201), "name" ('phantun') or    *)
(*          "none",                                                        *)
(*   masq, dnat  whether the line holds 'MASQUERADE', 'DNAT'.              *)
RuleLines ==
    [marker : {"none", "subnet", "name"}, masq : BOOLEAN, dnat : BOOLEAN]

(* The matches of /:udp2raw[^\s]*/g in one line, without the colon.       *)
LineMatches(l) ==
    (IF l.start # 0 THEN <<l.start>> ELSE <<>>)
        \o (IF l.mid # 0 THEN <<l.mid>> ELSE <<>>)

(* rawOutput.match(/:udp2raw[^\s]*/g).map(s => s.substring(1))             *)
RECURSIVE ChainMatches(_)
ChainMatches(lines) ==
    IF lines = <<>> THEN <<>>
    ELSE LineMatches(Head(lines)) \o ChainMatches(Tail(lines))

(* rawOutput.indexOf('udp2raw') !== -1                                     *)
HasWord(lines) ==
    \E i \in DOMAIN lines :
        lines[i].word \/ lines[i].start # 0 \/ lines[i].mid # 0

(* checkIptables of the UDP tunnel page.                                   *)
CheckIptables(lines) ==
    IF ChainMatches(lines) # <<>>
    THEN [present |-> TRUE, text |-> "Active: ", names |-> ChainMatches(lines)]
    ELSE IF HasWord(lines)
    THEN [present |-> TRUE, text |-> "Active (Rules Detected)", names |-> <<>>]
    ELSE IF (\E i \in DOMAIN lines : lines[i].drop)
            /\ (\E i \in DOMAIN lines : lines[i].rst)
    THEN [present |-> TRUE, text |-> "Active (RST Blocking Detected)",
          names |-> <<>>]
    ELSE [present |-> FALSE, text |-> "No rules detected", names |-> <<>>]

(* The test on a line's marker: 1.0.0 looks for the subnet, 1.1.0 for     *)
(* 'phantun' or the subnet.                                                *)
HasMarker(v, l) ==
    IF v = "phantun_v1" THEN l.marker = "subnet" ELSE l.marker # "none"

(* ruleTypes: MASQUERADE before DNAT in 1.0.0, in order of first          *)
(* appearance in 1.1.0 (within a line MASQUERADE is pushed first).        *)
RuleTypes(v, lines) ==
    LET hit(tok) == {i \in DOMAIN lines :
                        HasMarker(v, lines[i])
                        /\ IF tok = "MASQUERADE" THEN lines[i].masq
                                                 ELSE lines[i].dnat}
        first(tok) == CHOOSE i \in hit(tok) : \A k \in hit(tok) : i <= k
        m == IF hit("MASQUERADE") # {} THEN <<"MASQUERADE">> ELSE <<>>
        d == IF hit("DNAT") # {} THEN <<"DNAT">> ELSE <<>>
    IN IF v = "phantun_v1" \/ hit("MASQUERADE") = {} \/ hit("DNAT") = {}
       THEN m \o d
       ELSE IF first("DNAT") < first("MASQUERADE") THEN d \o m ELSE m \o d

(* activeRules: 1.0.0 sets it on a line with the marker and a rule kind,  *)
(* 1.1.0 on every line with a marker.                                      *)
ActiveRules(v, lines) ==
    IF v = "phantun_v1"
    THEN \E i \in DOMAIN lines :
            HasMarker(v, lines[i]) /\ (lines[i].masq \/ lines[i].dnat)
    ELSE \E i \in DOMAIN lines : HasMarker(v, lines[i])

(* checkIptablesRules of the Phantun pages on the IPv4 dump.               *)
CheckIptablesLines(v, lines) ==
    IF ActiveRules(v, lines)
    THEN [present |-> TRUE, text |-> "Active", names |-> RuleTypes(v, lines)]
    ELSE [present |-> FALSE, text |-> "No rules detected", names |-> <<>>]

(* The NAT check of the view runs on the dump.                             *)
CheckNat ==
    /\ pc = "init"
    /\ natResult' = IF view = "udptunnel" THEN CheckIptables(natLines)
                    ELSE CheckIptablesLines(view, natLines)
    /\ pc' = "nat"
    /\ UNCHANGED <<view, tunnels, globalEnabled, svc, table, pollQueue,
                   fetches, logPollFn, logSeq, lastClearTime, logWindow,
                   logStatus, failed, natDump, loadData, logBlob, logLevel,
                   logs, str, cleaned, natLines, ipLines, tunInterfaces,
                   logLine, color>>

InitNat ==
    /\ view \in {"udptunnel", "phantun_v1", "phantun_v2"}
    /\ NoStore
    /\ SchedulerIdle
    /\ lastClearTime = NoTime
    /\ natLines \in UNION {[1..k -> IF view = "udptunnel" THEN ChainLines
                                    ELSE RuleLines] : k \in 0..MaxNatLines}
    /\ failed = {} /\ natDump = "none" /\ loadData = [state |-> "pending"]
    /\ logBlob = <<>> /\ logLevel = "" /\ logs = <<>> /\ str = <<>>
    /\ cleaned = <<>>
    /\ natResult = [state |-> "pending"]
    /\ ipLines = <<>> /\ tunInterfaces = NoFacts
    /\ logLine = {} /\ color = "none"

NextNat == CheckNat

SpecNat == InitNat /\ [][NextNat]_vars


(* ------------------------- checkTunInterfaces -------------------------- *)
(* A line of 'ip addr show':                                               *)
(*   open   N when the line matches /^\d+:\s+(tunN):/, else 0,            *)
(*   up     whether the line holds 'UP',                                   *)
(*   inet   the address that follows 'inet ' in the line (0 = none),       *)
(*   inet6  the address that follows 'inet6 ' in the line (0 = none).      *)
(* The command prints an interface's name and its addresses on lines of   *)
(* their own; lines of other interfaces and link lines hold none of them. *)
TunNames == {1, 2}
Addrs == {1, 2}
IpLines ==
    [open : TunNames, up : BOOLEAN, inet : {0}, inet6 : {0}]
        \cup [open : {0}, up : {FALSE}, inet : Addrs, inet6 : {0}]
        \cup [open : {0}, up : {FALSE}, inet : {0}, inet6 : Addrs]
        \cup [open : {0}, up : {FALSE}, inet : {0}, inet6 : {0}]

(* The fact an opening line creates.                                       *)
OpenIface(l) ==
    [name |-> l.open, state |-> IF l.up THEN "UP" ELSE "DOWN",
     ipv4 |-> <<>>, ipv6 |-> <<>>]

(* currentIface is the fact pushed last (0 = null).                        *)
CurrentIfaceFirst(facts) == IF facts = <<>> THEN 0 ELSE 1

CurrentIface(facts) == Len(facts)

(* The body of lines.forEach on line i; facts is tunInterfaces so far.    *)
RECURSIVE ParseLines(_, _, _)
ParseLines(lines, i, facts) ==
    IF i > Len(lines) THEN facts
    ELSE LET l == lines[i]
             opened == IF l.open # 0 THEN Append(facts, OpenIface(l))
                       ELSE facts
             cur == CurrentIface(opened)
             with4 == IF cur # 0 /\ l.inet # 0
                      THEN [opened EXCEPT ![cur].ipv4 = Append(@, l.inet)]
                      ELSE opened
             with6 == IF cur # 0 /\ l.inet6 # 0
                      THEN [with4 EXCEPT ![cur].ipv6 = Append(@, l.inet6)]
                      ELSE with4
         IN ParseLines(lines, i + 1, with6)

CheckTunInterfaces(lines) ==
    LET facts == ParseLines(lines, 1, <<>>)
    IN IF Len(facts) > 0 THEN [null |-> FALSE, facts |-> facts] ELSE NoFacts

(* checkTunInterfaces runs on what the command printed.                    *)
CheckIfaces ==
    /\ pc = "init"
    /\ tunInterfaces' = CheckTunInterfaces(ipLines)
    /\ pc' = "ifaces"
    /\ UNCHANGED <<view, tunnels, globalEnabled, svc, table, pollQueue,
                   fetches, logPollFn, logSeq, lastClearTime, logWindow,
                   logStatus, failed, natDump, loadData, logBlob, logLevel,
                   logs, str, cleaned, natLines, natResult, ipLines,
                   logLine, color>>

InitIfaces ==
    /\ view \in {"phantun_v1", "phantun_v2"}
    /\ NoStore
    /\ SchedulerIdle
    /\ lastClearTime = NoTime
    /\ ipLines \in UNION {[1..k -> IpLines] : k \in 0..MaxIpLines}
    /\ failed = {} /\ natDump = "none" /\ loadData = [state |-> "pending"]
    /\ logBlob = <<>> /\ logLevel = "" /\ logs = <<>> /\ str = <<>>
    /\ cleaned = <<>>
    /\ natLines = <<>> /\ natResult = [state |-> "pending"]
    /\ tunInterfaces = NoFacts
    /\ logLine = {} /\ color = "none"

NextIfaces == CheckIfaces

SpecIfaces == InitIfaces /\ [][NextIfaces]_vars


(* ----------------------------- getLogColor ----------------------------- *)
(* A log line is the set of the keywords it holds, each written in small  *)
(* or in capital letters: <<word, case>>.                                  *)
Words == {"err", "error", "fail", "panic", "warn", "warning",
          "connection", "connected"}
Cases == {"lower", "upper"}

LogColorLines ==
    {l \in SUBSET (Words \X Cases) : Cardinality(l) <= MaxWords}

(* line.toLowerCase(): the words the lowered text holds.                   *)
ToLowerCase(l) == {occ[1] : occ \in l}

(* lowerLine.indexOf(kw) !== -1: kw is a word of the text or a part of    *)
(* one.                                                                    *)
IndexOfFound(lowerLine, kw) ==
    \E w \in lowerLine :
        \/ w = kw
        \/ <<kw, w>> \in {<<"err", "error">>, <<"warn", "warning">>}

ErrorColor(v) == IF v = "phantun_v1" THEN "#ff6b6b" ELSE "var(--accent-error)"
WarnColor(v) == IF v = "phantun_v1" THEN "#ffd93d" ELSE "var(--accent-warning)"
InfoColor(v) == IF v = "phantun_v1" THEN "#ddd" ELSE "var(--text-secondary)"
SuccessColor == "var(--accent-success)"

(* The warn keywords tested before the error keywords.                     *)
GetLogColorWarnFirst(v, l) ==
    LET lowerLine == ToLowerCase(l)
    IN IF \E kw \in {"warn", "warning"} : IndexOfFound(lowerLine, kw)
       THEN WarnColor(v)
       ELSE IF \E kw \in {"err", "error", "fail", "panic"} :
                  IndexOfFound(lowerLine, kw)
       THEN ErrorColor(v)
       ELSE IF v = "phantun_v2"
               /\ \E kw \in {"connection", "connected"} :
                     IndexOfFound(lowerLine, kw)
       THEN SuccessColor
       ELSE InfoColor(v)

GetLogColor(v, l) ==
    LET lowerLine == ToLowerCase(l)
    IN IF \E kw \in {"err", "error", "fail", "panic"} :
             IndexOfFound(lowerLine, kw)
       THEN ErrorColor(v)
       ELSE IF \E kw \in {"warn", "warning"} : IndexOfFound(lowerLine, kw)
       THEN WarnColor(v)
       ELSE IF v = "phantun_v2"
               /\ \E kw \in {"connection", "connected"} :
                     IndexOfFound(lowerLine, kw)
       THEN SuccessColor
       ELSE InfoColor(v)

(* The page colours one log line.                                          *)
ColorLine ==
    /\ pc = "init"
    /\ color' = GetLogColor(view, logLine)
    /\ pc' = "colored"
    /\ UNCHANGED <<view, tunnels, globalEnabled, svc, table, pollQueue,
                   fetches, logPollFn, logSeq, lastClearTime, logWindow,
                   logStatus, failed, natDump, loadData, logBlob, logLevel,
                   logs, str, cleaned, natLines, natResult, ipLines,
                   tunInterfaces, logLine>>

InitColor ==
    /\ view \in {"phantun_v1", "phantun_v2"}
    /\ NoStore
    /\ SchedulerIdle
    /\ lastClearTime = NoTime
    /\ logLine \in LogColorLines
    /\ failed = {} /\ natDump = "none" /\ loadData = [state |-> "pending"]
    /\ logBlob = <<>> /\ logLevel = "" /\ logs = <<>> /\ str = <<>>
    /\ cleaned = <<>>
    /\ natLines = <<>> /\ natResult = [state |-> "pending"]
    /\ ipLines = <<>> /\ tunInterfaces = NoFacts
    /\ color = "none"

NextColor == ColorLine

SpecColor == InitColor /\ [][NextColor]_vars


(* ------------------------ changing live state ------------------------- *)
(* A running instance exits while the page is open.                       *)
InstanceExits(k) ==
    /\ pc = "live"
    /\ svc[k] = "pid"
    /\ svc' = [svc EXCEPT ![k] = "stopped"]
    /\ UNCHANGED ioVars
    /\ UNCHANGED <<view, tunnels, globalEnabled, pc, table, pollQueue,
                   fetches, logPollFn, logSeq, lastClearTime, logWindow,
                   logStatus>>

(* The Phantun status page, open while instances exit.                     *)
InitLive ==
    /\ view \in {"phantun_v1", "phantun_v2"}
    /\ tunnels \in {s \in TunnelSeqs(view) : Len(s) = 1}
    /\ globalEnabled = TRUE
    /\ svc \in [Keys(view) -> {"stopped", "pid"}]
    /\ Idle

NextLive ==
    \/ Render
    \/ AutoStart
    \/ \E i \in 1..MaxTasks : TimerFire(i)
    \/ \E k \in 1..MaxInFlight : FetchResolve(k)
    \/ \E k \in 1..MaxInFlight : FetchReject(k)
    \/ \E k \in Keys(view) : InstanceExits(k)

(* The page is rendered once loaded, the animation frame arrives, the     *)
(* poll timer keeps ticking for every ready task, and a cycle whose       *)
(* queries are asked again and again succeeds in the end.                 *)
LiveFairness ==
    /\ WF_vars(Render)
    /\ WF_vars(AutoStart)
    /\ \A i \in 1..MaxTasks : WF_vars(TimerFire(i))
    /\ \A k \in 1..MaxInFlight : SF_vars(FetchResolve(k))

SpecLive == InitLive /\ [][NextLive]_vars /\ LiveFairness

(* =============================== claims ================================ *)
Rendered == pc \in {"rendered", "live"}

(* The key a live instance must carry to be the instance of tunnel t: the *)
(* section id, or role + id where the init script names instances so.     *)
ClaimKey(v, t) == IF IsPhantun(v) THEN t.mode \o "_" \o t.id ELSE t.id
LiveRunning(v, t) ==
    /\ ClaimKey(v, t) \in Keys(v)
    /\ RawRunning(svc[ClaimKey(v, t)])

(* C1: a tunnel's row says Running if and only if the global enabled flag *)
(* is true, the tunnel is enabled and a live instance with the tunnel's   *)
(* key is running. As stated, for every view.                             *)
C1_RunningIff ==
    Rendered =>
        \A i \in DOMAIN table :
            (table[i].status = "Running") <=>
                (globalEnabled /\ ~tunnels[i].disabled
                 /\ LiveRunning(view, tunnels[i]))

(* C2: in renderStatusTable the status follows the precedence: global     *)
(* flag false gives ServiceDisabled whatever else holds; otherwise a      *)
(* disabled tunnel gives Disabled whatever its live state; only otherwise *)
(* the status is Running or Stopped.                                      *)
C2_Precedence ==
    (view = "udp2raw" /\ Rendered) =>
        \A i \in DOMAIN table :
            /\ ~globalEnabled => table[i].status = "ServiceDisabled"
            /\ (globalEnabled /\ tunnels[i].disabled) =>
                    table[i].status = "Disabled"
            /\ (globalEnabled /\ ~tunnels[i].disabled) =>
                    table[i].status = IF LiveRunning(view, tunnels[i])
                                      THEN "Running" ELSE "Stopped"

(* Scenario D is displayed: service disabled, tunnel enabled and running. *)
C2_Witness ==
    /\ view = "udp2raw"
    /\ pc = "live"
    /\ ~globalEnabled
    /\ \E i \in DOMAIN table :
          /\ ~tunnels[i].disabled
          /\ LiveRunning(view, tunnels[i])
          /\ table[i].status = "ServiceDisabled"

(* C3: a row carries a process id only when its status is Running.        *)
C3_PidOnlyWhenRunning ==
    Rendered =>
        \A i \in DOMAIN table :
            table[i].pid > 0 => table[i].status = "Running"

(* C4: the table holds exactly one row per tunnel section, in the order   *)
(* of the sections: none dropped, none duplicated, never re-sorted.       *)
C4_OneRowPerTunnelInOrder ==
    Rendered =>
        /\ Len(table) = Len(tunnels)
        /\ \A i \in DOMAIN table : table[i].id = tunnels[i].id

(* Two sections, the second-named first and disabled, shown after a       *)
(* refresh cycle has re-registered the status task.                       *)
C4_Witness ==
    /\ pc = "live"
    /\ view = "udp2raw"
    /\ NStatusTasks(pollQueue) = 2
    /\ Len(tunnels) = 2
    /\ tunnels[1].id = "t2"
    /\ tunnels[1].disabled
    /\ Len(table) = 2
    /\ table[1].id = "t2"
    /\ table[2].id = "t1"

(* C5: in the udp2raw status view exactly one status refresh task is      *)
(* registered after the first render and after any number of cycles.      *)
C5_OneStatusTask ==
    (view = "udp2raw" /\ pc = "live") => NStatusTasks(pollQueue) = 1

(* C6: at most one log task is registered; logPollFn is set exactly when  *)
(* one is, and it is that task's function; Start Refresh pressed while    *)
(* polling is active changes nothing.                                     *)
C6_StartIdempotent ==
    /\ NLogTasks(pollQueue) <= 1
    /\ (logPollFn # NoFn) <=> (NLogTasks(pollQueue) = 1)
    /\ \A i \in DOMAIN pollQueue :
          pollQueue[i].kind = "log" => pollQueue[i].fn = logPollFn
    /\ (view = "phantun_v1" /\ logPollFn # NoFn) =>
          StartRefreshResult = SchedulerState

(* Polling was stopped and started again, and is active.                  *)
C6_Witness ==
    /\ pc = "live"
    /\ view = "phantun_v1"
    /\ logPollFn # NoFn
    /\ logStatus = "auto"
    /\ NLogTasks(pollQueue) = 1

(* C7: at most one log fetch of the view is in flight at any time.        *)
C7_OneLogFetchInFlight == NLogFetches(fetches) <= 1

(* C8: while polling is stopped, the completion of a timer-started log    *)
(* cycle (one that was in flight when Stop was pressed) changes neither   *)
(* the log window nor its status line.                                    *)
C8_StaleResultDiscarded ==
    [][(logPollFn = NoFn
        /\ NTimerLogFetches(fetches') < NTimerLogFetches(fetches))
       => UNCHANGED <<logWindow, logStatus>>]_vars

(* C9: while polling is stopped no timer-started log cycle starts, and    *)
(* Stop Refresh pressed while stopped leaves the scheduler state as is.   *)
C9_StopEffectiveIdempotent ==
    /\ []((view = "phantun_v1" /\ logPollFn = NoFn) =>
              StopRefreshResult = SchedulerState)
    /\ []((view = "phantun_v1" /\ pc = "live") =>
              /\ StopRefreshResult.fn = NoFn
              /\ NLogTasks(StopRefreshResult.queue) = 0)
    /\ [][logPollFn = NoFn =>
              NTimerLogFetches(fetches') <= NTimerLogFetches(fetches)]_vars

(* Polling is stopped while the status task is still queued and ready.    *)
C9_Witness ==
    /\ pc = "live"
    /\ view = "phantun_v1"
    /\ logPollFn = NoFn
    /\ logStatus = "paused"
    /\ \E i \in DOMAIN pollQueue : pollQueue[i].r

(* C10: a failed cycle does not end polling: a registered task that has   *)
(* no cycle in flight is ready to start one at its next interval.         *)
C10_FailedCycleTaskReady ==
    \A i \in DOMAIN pollQueue :
        \/ pollQueue[i].r
        \/ \E k \in DOMAIN fetches : fetches[k].fn = pollQueue[i].fn
(* C11: if exactly one query of a load fails, the load still completes    *)
(* and every other category carries what it would have carried had no     *)
(* query failed.                                                           *)
C11_FailureConfined ==
    (pc = "loaded" /\ Cardinality(failed) = 1) =>
        /\ loadData.state = "resolved"
        /\ \A c \in Queries \ failed :
              loadData[c] = LoadResult(view, tunnels, svc, natDump, logBlob,
                                       logLevel, lastClearTime, {})[c]

(* C12: whenever the NAT dump query fails, the NAT diagnostic of the load *)
(* is the 'Check failed' state.                                            *)
C12_NatCheckFailed ==
    (pc = "loaded" /\ "nat" \in failed /\ loadData.state = "resolved") =>
        loadData.nat = "CheckFailed"

(* C13: with a cutoff set, a line of the log is in the window if and only *)
(* if it has a parsed time strictly after the cutoff; lines at or before  *)
(* the cutoff, and lines without a time, are not shown. Stated for logs   *)
(* shorter than the window and for lines the level filter lets through.   *)
C13_CutoffRetention ==
    (pc = "logs" /\ lastClearTime # NoTime /\ Len(logBlob) < LogTail) =>
        \A i \in DOMAIN logBlob :
            (view = "phantun_v1" => LevelKeep(logBlob[i], logLevel)) =>
                ((\E j \in DOMAIN logs : logs[j] = logBlob[i])
                 <=> (logBlob[i].ts # NoTime /\ logBlob[i].ts > lastClearTime))

(* C14: whenever a cutoff is set, the window holds exactly one synthetic  *)
(* marker and it is the last line of the display order, for every log:    *)
(* an empty one and one with a window's worth of lines after the cutoff   *)
(* included.                                                               *)
C14_OneMarkerLast ==
    (pc = "logs" /\ lastClearTime # NoTime) =>
        /\ Cardinality({j \in DOMAIN logs : logs[j].synth # NoTime}) = 1
        /\ logs[Len(logs)].synth # NoTime

(* C17: with configured level L of the table, a line whose level word l   *)
(* is in the table is kept if and only if ordinal(l) >= ordinal(L), with  *)
(* trace < debug < info < warn = warning < error = err; a line without a  *)
(* level word of the table is always kept.                                 *)
C17_LevelFilter ==
    LET ordinal == [trace |-> 0, debug |-> 1, info |-> 2, warn |-> 3,
                    warning |-> 3, error |-> 4, err |-> 4]
    IN (pc = "logs" /\ view = "phantun_v1" /\ lastClearTime = NoTime
        /\ logLevel \in DOMAIN ordinal) =>
          \A i \in DOMAIN logBlob :
              (\E j \in DOMAIN logs : logs[j] = logBlob[i])
              <=> (logBlob[i].level \in DOMAIN ordinal
                      => ordinal[logBlob[i].level] >= ordinal[logLevel])

(* C16: stripping a string that contains no control codes (no ESC byte,  *)
(* so no CSI or OSC sequence) returns the string unchanged, whatever      *)
(* blanks it starts or ends with and whatever bracketed text it holds.    *)
C16_CleanStringUnchanged ==
    (pc = "stripped" /\ \A i \in DOMAIN str : str[i] # "ESC") => cleaned = str

(* C16, as amended: stripping a string that contains no control codes    *)
(* returns the string without its leading and trailing blanks and         *)
(* otherwise unchanged; for stripAnsi, provided the string holds no       *)
(* colour residue either ("[", digits and ";", "m").                      *)
C16_CleanStringTrimmed ==
    LET residue == \E i \in DOMAIN str : \E n \in 0..Len(str) :
                      /\ str[i] = "["
                      /\ i + n + 1 <= Len(str)
                      /\ \A k \in (i + 1)..(i + n) : str[k] \in {"0", ";"}
                      /\ str[i + n + 1] = "m"
    IN (pc = "stripped" /\ (\A i \in DOMAIN str : str[i] # "ESC")
        /\ (view = "udp2raw" => ~residue)) =>
          /\ cleaned # <<>> =>
                (cleaned[1] # " " /\ cleaned[Len(cleaned)] # " ")
          /\ \E lead \in 0..Len(str) :
                /\ lead + Len(cleaned) <= Len(str)
                /\ \A k \in 1..lead : str[k] = " "
                /\ \A k \in 1..Len(cleaned) : cleaned[k] = str[lead + k]
                /\ \A k \in (lead + Len(cleaned) + 1)..Len(str) : str[k] = " "

(* A string with a leading blank and bracketed text has been stripped.    *)
C16_Witness ==
    /\ pc = "stripped"
    /\ \A i \in DOMAIN str : str[i] # "ESC"
    /\ Len(str) >= 3
    /\ str[1] = " "
    /\ \E i \in DOMAIN str : str[i] = "["
    /\ Len(cleaned) >= 2
    /\ cleaned # str

(* C19: in the Phantun status view the status cycles publish: once the   *)
(* live state has stopped changing, the displayed tunnel table comes to   *)
(* show it and keeps showing it, without a reload of the page.            *)
C19_StatusEventuallyCurrent ==
    <>[](table = RenderTable(view, tunnels, globalEnabled, svc))

(* Instance keys that match no tunnel of the configuration, by the key    *)
(* the view matches with: the section id, role + id, or id or alias.      *)
ExtraKeys ==
    {k \in Keys(view) :
        \A i \in DOMAIN tunnels :
            /\ k # ClaimKey(view, tunnels[i])
            /\ view = "udptunnel" => k # GetTunnelConfigs(tunnels)[i].alias}

WithoutExtras == [k \in Keys(view) |-> IF k \in ExtraKeys THEN "absent" ELSE svc[k]]

PassesFilters(line) ==
    IF view = "udp2raw" THEN ~line.blank
    ELSE IF view = "udptunnel" THEN TRUE
    ELSE /\ view = "phantun_v1" => LevelKeep(line, logLevel)
         /\ lastClearTime # NoTime => CutoffKeep(view, line, lastClearTime)

(* C21: the displayed lines are the last maxSize lines of the filtered    *)
(* sequence, most recent first: the window holds min(maxSize, number of   *)
(* lines that pass the filters) lines of the log, and its j-th line is    *)
(* the j-th from the end of the filtered sequence.                        *)
C21_TailOfFilteredReversed ==
    pc = "logs" =>
        LET filtered == SelectSeq(logBlob, PassesFilters)
            shown == SelectSeq(logs, LAMBDA l : l.synth = NoTime)
            maxSize == IF view = "udp2raw" THEN LogTailUdp2raw ELSE LogTail
            n == Len(filtered)
        IN /\ Len(shown) = IF n < maxSize THEN n ELSE maxSize
           /\ \A j \in DOMAIN shown : shown[j] = filtered[n + 1 - j]

(* C22: control codes are stripped before the filters decide: the window *)
(* of a log is the window of the same log with every line cleaned first,  *)
(* so a line with embedded codes is kept exactly when the line without    *)
(* them is.                                                                *)
C22_FiltersSeeCleanText ==
    pc = "logs" =>
        logs = GetRecentLogs(view, [i \in DOMAIN logBlob |-> CleanLine(logBlob[i])],
                             logLevel, lastClearTime)

(* C23: on the UDP tunnel page, when lines of the dump begin with         *)
(* ':udp2raw', the result is "rules present" with exactly the chain names *)
(* of those lines, in order; the chain answer is given only then.         *)
StartNames == SelectSeq([i \in DOMAIN natLines |-> natLines[i].start],
                        LAMBDA n : n # 0)

C23_NamedChainsFirst ==
    (pc = "nat" /\ view = "udptunnel") =>
        IF StartNames # <<>>
        THEN natResult = [present |-> TRUE, text |-> "Active: ",
                          names |-> StartNames]
        ELSE natResult.text # "Active: "

(* C24: the Phantun pages report rules present exactly when one line of  *)
(* the dump holds both a marker and MASQUERADE or DNAT.                    *)
C24_MarkerAndTokenOnOneLine ==
    (pc = "nat" /\ IsPhantun(view)) =>
        (natResult.present <=>
            \E i \in DOMAIN natLines :
                /\ HasMarker(view, natLines[i])
                /\ (natLines[i].masq \/ natLines[i].dnat))

(* C25: every opening line yields one fact, in input order, UP exactly   *)
(* when the line holds UP; the fact holds the addresses of the address    *)
(* lines between its opening line and the next one, in order; address     *)
(* lines before the first opening line are in no fact.                    *)
OpeningLines == {i \in DOMAIN ipLines : ipLines[i].open # 0}

(* The k-th opening line, and the line that ends its block.                *)
OpeningLine(k) ==
    CHOOSE i \in OpeningLines :
        Cardinality({m \in OpeningLines : m <= i}) = k

BlockEnd(k) ==
    IF k < Cardinality(OpeningLines) THEN OpeningLine(k + 1) - 1
    ELSE Len(ipLines)

Inet(lines) ==
    LET a == SelectSeq(lines, LAMBDA l : l.inet # 0)
    IN [i \in DOMAIN a |-> a[i].inet]

Inet6(lines) ==
    LET a == SelectSeq(lines, LAMBDA l : l.inet6 # 0)
    IN [i \in DOMAIN a |-> a[i].inet6]

C25_InterfaceFacts ==
    pc = "ifaces" =>
        LET facts == tunInterfaces.facts
        IN /\ Len(facts) = Cardinality(OpeningLines)
           /\ \A k \in DOMAIN facts :
                LET block == SubSeq(ipLines, OpeningLine(k) + 1, BlockEnd(k))
                IN /\ facts[k].name = ipLines[OpeningLine(k)].open
                   /\ (facts[k].state = "UP") <=> ipLines[OpeningLine(k)].up
                   /\ facts[k].state \in {"UP", "DOWN"}
                   /\ facts[k].ipv4 = Inet(block)
                   /\ facts[k].ipv6 = Inet6(block)

(* Two interfaces were opened after an address line, and the second one   *)
(* got an address.                                                         *)
C25_Witness ==
    /\ pc = "ifaces"
    /\ Len(tunInterfaces.facts) = 2
    /\ ipLines[1].inet # 0
    /\ tunInterfaces.facts[1].ipv4 = <<>>
    /\ tunInterfaces.facts[1].state = "UP"
    /\ tunInterfaces.facts[2].state = "DOWN"
    /\ tunInterfaces.facts[2].ipv6 # <<>>

(* C26: every line is classified error, warn or info; a line with an     *)
(* error keyword is error whatever else it holds; a line with neither an  *)
(* error nor a warn keyword is info.                                       *)
HasErrorWord == ToLowerCase(logLine) \cap {"err", "error", "fail", "panic"} # {}
HasWarnWord == ToLowerCase(logLine) \cap {"warn", "warning"} # {}

HasSuccessWord ==
    view = "phantun_v2"
    /\ ToLowerCase(logLine) \cap {"connection", "connected"} # {}

WindowLines(w) == {n \in 1..w.snap : w.cutoff = NoTime \/ n > w.cutoff}

C27_NoLineBeforeCutoff ==
    [][(logWindow' # logWindow /\ lastClearTime # NoTime)
          => \A n \in WindowLines(logWindow') : n > lastClearTime]_vars

(* The window of a cycle that started before the click, displayed after   *)
(* it: the log grew between the start of the cycle and the click.         *)
C27_Witness ==
    /\ pc = "live"
    /\ lastClearTime # NoTime
    /\ logWindow.cutoff = lastClearTime
    /\ logWindow.snap < logWindow.cutoff
    /\ logWindow.snap > 0

(* C28: when log cycles overlap, the window of the cycle that started    *)
(* later stays: a cycle that started earlier read the log no later, so    *)
(* the displayed window never goes back to an older reading of the log.   *)
C28_NewerResultStays ==
    [][(pc = "live" /\ logWindow' # logWindow)
          => logWindow'.snap >= logWindow.snap]_vars

(* C29: on the UDP tunnel page a live instance accounts for at most one  *)
(* tunnel: two rows are never both Running on the strength of the same    *)
(* instance.                                                               *)
InstanceOfRow(i) ==
    LET t == GetTunnelConfigs(tunnels)[i]
    IN IF t.id \in DOMAIN MapInstances(view, svc) THEN t.id ELSE t.alias

C29_OneTunnelPerInstance ==
    (Rendered /\ view = "udptunnel") =>
        \A i, j \in DOMAIN table :
            (i # j /\ table[i].status = "Running" /\ table[j].status = "Running")
                => InstanceOfRow(i) # InstanceOfRow(j)

(* C30: stripping is idempotent: the stripper leaves its own output as   *)
(* it is, and the output holds no ESC.                                     *)
C30_StripIdempotent ==
    pc = "stripped" =>
        /\ Strip(view, cleaned) = cleaned
        /\ \A i \in DOMAIN cleaned : cleaned[i] # "ESC"

====
